---- MODULE Spec2Model ----
(***************************************************************************)
(* Authentication gateway in front of the Ghost content backend (app.js,   *)
(* lib/db.js).  State: the three SQLite tables, the per-cookie session,    *)
(* the wall clock and the requests in flight, each at one of its await     *)
(* points.                                                                 *)
(***************************************************************************)
EXTENDS Integers, FiniteSets, Sequences, TLC

VARIABLES now, ticks, started, codes, passkeys, challenges, sessions, expires,
          reqs, last, consumed, superseded, sso

vars == <<now, ticks, started, codes, passkeys, challenges, sessions, expires,
          reqs, last, consumed, superseded, sso>>

(* ------------------------------ bounds -------------------------------- *)
MaxTicks == 1
MaxRequests == 3
MaxCounter == 1
MaxBody == 2

(* --------------------------- value universes -------------------------- *)
Emails == {"a@x.com", "b@x.com"}
NoEmail == ""
Codes == {"111111", "222222"}
NoCode == ""
Clients == {"k1"}
Slots == {"r1", "r2"}
CredIds == {"cred1"}
Labels == {"builder", "free-member"}
LabelSets == SUBSET Labels

(* Ghost label objects of a member: {name, slug} *)
GhostLabels == {[name |-> "builder", slug |-> "builder"],
                [name |-> "free-member", slug |-> "free"]}
MemberLabelSets == SUBSET GhostLabels

(* app.js: Date.now() + (10 * 60 * 1000) *)
CODE_TTL_MS == 10 * 60 * 1000

(* `${SSO_PROVIDER_URL}/auth?redirect=${encodeURIComponent(callbackUrl)}` *)
(* with the defaults of SSO_PROVIDER_URL and ORIGIN                        *)
ssoUrl ==
    "http://localhost:3001/auth?redirect=https%3A%2F%2Finsights.travelintelligence.club%2Fauth%2Fcallback"

(* app.js: default ALLOWED_LABELS *)
ALLOWED_LABELS == {"builder", "patron", "buccaneer", "explorer", "insights-subscriber"}

(* redirectUrl of the 403 and 404 bodies *)
upgradeUrl == "https://travelintelligence.club"

TickSteps == {1, CODE_TTL_MS, CODE_TTL_MS + 1}

(* --------------------------- verification_codes ------------------------ *)
(* A row is [email, code, expiresAt, issuedAt]; issuedAt is not a column: it *)
(* records the Date.now() the issuing handler read.                         *)
RowsOf(table, email) == {r \in table : r.email = email}

CodeRows(email) == RowsOf(codes, email)

(* a plain INSERT that keeps the earlier row *)
storeCodeAppend(table, row) == table \cup {row}

(* an UPDATE of the code alone, the expiry of the earlier row being kept *)
storeCodeKeepExpiry(table, row) ==
    {r \in table : r.email # row.email} \cup
    (IF RowsOf(table, row.email) = {}
     THEN {row}
     ELSE {[r EXCEPT !.code = row.code] : r \in RowsOf(table, row.email)})

(* INSERT OR REPLACE INTO verification_codes: email is the primary key *)
storeCode(table, row) == {r \in table : r.email # row.email} \cup {row}

(* SELECT code, expires_at ... WHERE email = ?  (stmt.get: one row or none) *)
getCode(table, email) ==
    LET rows == {r \in table : r.email = email}
    IN  IF rows = {} THEN {} ELSE {CHOOSE r \in rows : TRUE}

(* a delete that matches no row *)
deleteCodeNoRow(table, email) == table

(* DELETE FROM verification_codes WHERE email = ? *)
deleteCode(table, email) == {r \in table : r.email # email}

(* a sweep that also takes the rows at the instant of their expiry *)
cleanupExpiredCodesAtExpiry(table, t) == {r \in table : ~(r.expiresAt <= t)}

(* DELETE FROM verification_codes WHERE expires_at < ? (Date.now()) *)
cleanupExpiredCodes(table, t) == {r \in table : ~(r.expiresAt < t)}

(* ten minutes taken in seconds *)
ExpiresAtSeconds(t) == t + (10 * 60)

(* const expiresAt = Date.now() + (10 * 60 * 1000) *)
ExpiresAt(t) == t + CODE_TTL_MS

(* ------------------------------- sessions ------------------------------ *)
(* destroyed is not a field of the session: it records that the connection's *)
(* session was destroyed by a logout and not created again since            *)
NoSession ==
    [authenticated |-> FALSE, userEmail |-> NoEmail,
     hasLabels |-> FALSE, userLabels |-> {}, destroyed |-> FALSE]

createAuthSession(email, labels) ==
    [authenticated |-> TRUE, userEmail |-> email,
     hasLabels |-> TRUE, userLabels |-> labels, destroyed |-> FALSE]

(* cookie: { maxAge: 7 * 24 * 60 * 60 * 1000 } *)
maxAge == 7 * 24 * 60 * 60 * 1000

(* the expiry a session gets when it is created at t *)
cookieExpires(t) == t + maxAge

(* a request renews the expiry of the session it carries *)
touchRolling(exp, t) == IF exp > t THEN t + maxAge ELSE exp

(* a request leaves the expiry of the session it carries as it is *)
touch(exp, t) == exp

(* the session a request carries: none once its expiry is reached *)
loadSession(sess, exp, t) ==
    IF sess.authenticated /\ t >= exp THEN NoSession ELSE sess

(* a handler that returns before createAuthSession signs the connection out *)
returnedSignedOut(sess) == NoSession

(* req.session after a handler returned before createAuthSession *)
returned(sess) == sess

(* the cookie is cleared and the store entry is kept *)
destroySessionCookieOnly(sess) == [sess EXCEPT !.destroyed = TRUE]

(* the store entry is invalidated and the cookie cleared *)
destroySession(sess) == [NoSession EXCEPT !.destroyed = TRUE]

(* destroying fails when there is nothing to destroy *)
destroySessionThrowsIfNone(sess) == ~sess.authenticated

(* destroySession succeeds, also when no session exists *)
destroySessionThrows(sess) == FALSE

(* the slugs taken for the names *)
labelSlugs(labels) == {l.slug : l \in labels}

(* (member.labels || []).map(l => l.name) *)
labelNames(labels) == {l.name : l \in labels}

(* userLabels.some(label => ALLOWED_LABELS.includes(label)) *)
hasAccess(userLabels) == \E l \in userLabels : l \in ALLOWED_LABELS

(* every session passes *)
isAuthenticatedAlways(sess) == TRUE

(* req.session && req.session.authenticated *)
isAuthenticated(sess) == sess.authenticated

(* req.session && req.session.authenticated && req.session.userEmail *)
requireAuth(sess) == sess.authenticated /\ sess.userEmail # NoEmail

(* req.session.userLabels is set and one of them is allowed *)
requireLabels(sess) == sess.hasLabels /\ hasAccess(sess.userLabels)

(* ---------------------------------- passkeys --------------------------- *)
(* A row is [email, credentialId, counter]; credential_id is UNIQUE.       *)
PasskeyRows(cid) == {r \in passkeys : r.credentialId = cid}

(* INSERT INTO passkeys (email, credential_id, ..., counter, ...) *)
createPasskey(table, email, cid, counter) ==
    table \cup {[email |-> email, credentialId |-> cid, counter |-> counter]}

(* SELECT * FROM passkeys WHERE credential_id = ? *)
findPasskeyByCredentialId(table, cid) == {r \in table : r.credentialId = cid}

(* UPDATE passkeys SET counter = ? WHERE credential_id = ? *)
updatePasskeyCounter(table, counter, cid) ==
    {IF r.credentialId = cid THEN [r EXCEPT !.counter = counter] ELSE r : r \in table}

(* --------------------------------- challenges -------------------------- *)
(* A row is [email, challenge]; email is the primary key.                   *)
Challenges == {"ch1", "ch2"}

(* datetime(created_at, '+10 minutes'), in seconds *)
CHALLENGE_TTL_S == 10 * 60

(* CURRENT_TIMESTAMP and datetime('now'): the clock in whole seconds *)
CurrentTimestamp(t) == t \div 1000

(* INSERT OR REPLACE INTO challenges (email, challenge, created_at)         *)
(* VALUES (?, ?, CURRENT_TIMESTAMP); storedAt is the instant of the write   *)
storeChallenge(table, email, challenge, t) ==
    {r \in table : r.email # email} \cup
    {[email |-> email, challenge |-> challenge,
      createdAt |-> CurrentTimestamp(t), storedAt |-> t]}

(* a read that still returns the challenge at the end of its ten minutes *)
getChallengeAtExpiry(table, email, t) ==
    {r \in table : r.email = email
                   /\ r.createdAt + CHALLENGE_TTL_S >= CurrentTimestamp(t)}

(* SELECT challenge FROM challenges WHERE email = ?                         *)
(* AND datetime(created_at, '+10 minutes') > datetime('now')                *)
getChallenge(table, email, t) ==
    {r \in table : r.email = email
                   /\ r.createdAt + CHALLENGE_TTL_S > CurrentTimestamp(t)}

(* DELETE FROM challenges                                                   *)
(* WHERE datetime(created_at, '+10 minutes') < datetime('now')              *)
cleanupExpiredChallenges(table, t) ==
    {r \in table : ~(r.createdAt + CHALLENGE_TTL_S < CurrentTimestamp(t))}

(* DELETE FROM challenges WHERE email = ? *)
deleteChallenge(table, email) == {r \in table : r.email # email}

(* ------------------------------ SSO tokens ------------------------------ *)
(* a token of the query string: signed with SESSION_SECRET or not, expired  *)
(* or not, with its iss, email and labels claims                            *)
NoToken == [present |-> FALSE, signed |-> FALSE, expired |-> FALSE, iss |-> "",
            email |-> NoEmail, labels |-> {}]

Tokens ==
    {NoToken}
      \cup [present : {TRUE}, signed : {FALSE}, expired : {FALSE},
            iss : {"bear.flights", "other"}, email : {NoEmail}, labels : {{}}]
      \cup [present : {TRUE}, signed : {TRUE}, expired : {TRUE},
            iss : {"bear.flights"}, email : {NoEmail}, labels : {{}}]
      \cup [present : {TRUE}, signed : {TRUE}, expired : {FALSE},
            iss : {"bear.flights", "other"},
            email : Emails \cup {NoEmail}, labels : LabelSets]

(* the payload is decoded and nothing is verified *)
jwtDecode(token) == TRUE

(* jwt.verify(token, sessionSecret) returns the payload; it throws otherwise *)
jwtVerify(token) == token.signed /\ ~token.expired

(* ------------------------- bodies of the upstream ----------------------- *)
(* A body is a sequence of bytes.  "x" is an ASCII byte, "C3" "A9" is the   *)
(* UTF-8 encoding of one two-byte character, and "</body>" stands for the   *)
(* seven ASCII bytes of the closing tag.  A string is a sequence of         *)
(* characters: "e'" is that character, "FFFD" the replacement character,    *)
(* "</body>" the tag and "SSO_SCRIPT" the text of the script block.         *)
UpstreamBytes == {"x", "C3", "A9", "</body>"}

Chunks == UNION {[1..n -> UpstreamBytes] : n \in 1..MaxBody}

HtmlTypes == {"text/html; charset=utf-8"}
ContentTypes == HtmlTypes \cup {"application/json"}

(* contentType.includes('text/html') *)
isHtml(contentType) == contentType \in HtmlTypes

RECURSIVE toString(_)
(* chunk.toString(): UTF-8 decoding of one chunk on its own *)
toString(chunk) ==
    IF chunk = <<>> THEN <<>>
    ELSE IF chunk[1] = "C3" /\ Len(chunk) >= 2 /\ chunk[2] = "A9"
         THEN <<"e'">> \o toString(SubSeq(chunk, 3, Len(chunk)))
    ELSE IF chunk[1] \in {"C3", "A9"}
         THEN <<"FFFD">> \o toString(Tail(chunk))
    ELSE <<chunk[1]>> \o toString(Tail(chunk))

RECURSIVE encode(_)
(* the UTF-8 bytes of a string, as res.send writes them *)
encode(str) ==
    IF str = <<>> THEN <<>>
    ELSE (CASE str[1] = "e'" -> <<"C3", "A9">>
            [] str[1] = "FFFD" -> <<"EF", "BF", "BD">>
            [] OTHER -> <<str[1]>>) \o encode(Tail(str))

(* the bytes an item of a body or of a string takes on the wire *)
Width(x) ==
    CASE x = "</body>" -> 7
      [] x = "SSO_SCRIPT" -> 508
      [] x = "e'" -> 2
      [] x = "FFFD" -> 3
      [] OTHER -> 1

RECURSIVE byteLength(_)
(* Buffer.byteLength(modifiedHtml) *)
byteLength(str) ==
    IF str = <<>> THEN 0 ELSE Width(str[1]) + byteLength(Tail(str))

(* the template literal of the script block: it ends with the closing tag *)
ssoScript == <<"SSO_SCRIPT", "</body>">>

(* the places of a pattern in a string *)
Occurrences(str, pattern) == {i \in 1..Len(str) : str[i] = pattern}

Min(S) == CHOOSE i \in S : \A j \in S : i <= j

Max(S) == CHOOSE i \in S : \A j \in S : i >= j

(* String.prototype.replace with a string pattern: the first occurrence *)
replace(str, pattern, replacement) ==
    IF Occurrences(str, pattern) = {} THEN str
    ELSE LET i == Min(Occurrences(str, pattern))
         IN  SubSeq(str, 1, i - 1) \o replacement \o SubSeq(str, i + 1, Len(str))

(* the chunk decoded and encoded again on its way *)
pipeAsText(chunk) == encode(toString(chunk))

(* response.data.pipe(res): the chunk is written as it came *)
pipe(chunk) == chunk

(* ------------------------------- requests ------------------------------ *)
NoReq ==
    [op |-> "none", pc |-> "idle", client |-> "", email |-> NoEmail,
     emailParam |-> NoEmail, known |-> FALSE,
     code |-> NoCode, stored |-> {}, row |-> {},
     replay |-> FALSE, overwritten |-> FALSE,
     cred |-> "", newCounter |-> 0, seenCounter |-> 0,
     sess |-> NoSession, forwarded |-> FALSE,
     invoked |-> FALSE, upstreamStatus |-> 0, contentType |-> "",
     delivered |-> <<>>, htmlContent |-> <<>>,
     written |-> <<>>]

(* what the client got back *)
NoResp ==
    [op |-> "none", client |-> "", email |-> NoEmail, code |-> NoCode,
     emailParam |-> NoEmail,
     status |-> 0, error |-> "", userLabels |-> {},
     hasUserLabels |-> FALSE, redirectUrl |-> "", thrown |-> "",
     streamFailed |-> FALSE, found |-> {},
     known |-> FALSE, mailed |-> FALSE,
     replay |-> FALSE, overwritten |-> FALSE,
     cred |-> "", newCounter |-> 0, seenCounter |-> 0,
     sess |-> NoSession, forwarded |-> FALSE,
     location |-> "", authenticated |-> FALSE, member |-> {},
     token |-> NoToken, invoked |-> FALSE, success |-> FALSE,
     upstreamStatus |-> 0, contentType |-> "", delivered |-> <<>>,
     body |-> <<>>, contentLength |-> -1]

(* req.session of a request of connection k *)
Session(k) == loadSession(sessions[k], expires[k], now)

Free(s) == reqs[s].pc = "idle"

Begin(s) == Free(s) /\ started < MaxRequests /\ started' = started + 1

(* the handler goes on to its next await *)
Set(s, r) == reqs' = [reqs EXCEPT ![s] = r] /\ last' = last

(* the response a handler builds from its locals *)
Reply(r, status, error) ==
    [NoResp EXCEPT !.op = r.op, !.client = r.client, !.email = r.email,
                   !.code = r.code, !.status = status, !.error = error,
                   !.known = r.known,
                   !.replay = r.replay, !.overwritten = r.overwritten,
                   !.cred = r.cred, !.newCounter = r.newCounter,
                   !.seenCounter = r.seenCounter, !.sess = r.sess,
                   !.forwarded = r.forwarded, !.invoked = r.invoked,
                   !.upstreamStatus = r.upstreamStatus,
                   !.contentType = r.contentType, !.delivered = r.delivered]

(* the response is sent and the request is over *)
Answer(s, resp) == reqs' = [reqs EXCEPT ![s] = NoReq] /\ last' = resp

(* res.status(status).json({error, userLabels}) : the request is answered *)
RespondWith(s, r, status, error, labels) ==
    Answer(s, [Reply(r, status, error) EXCEPT !.userLabels = labels])

Respond(s, r, status, error) == RespondWith(s, r, status, error, {})

(* expiry noticed one millisecond late *)
ExpiredLate(row, t) == row.expiresAt + 1 < t

(* storedData.expiresAt < Date.now() *)
Expired(row, t) == row.expiresAt < t

(* cleanup on every failed read of a present record *)
StaleOrWrong(stored, t) == stored # {}

(* storedData && storedData.expiresAt < Date.now() *)
Stale(stored, t) == \E row \in stored : Expired(row, t)

(* expiry tested with <= *)
RejectedAtExpiry(stored, code, t) ==
    \/ stored = {}
    \/ \E row \in stored : row.code # code \/ row.expiresAt <= t

(* !storedData || storedData.code !== code || storedData.expiresAt < Date.now() *)
Rejected(stored, code, t) ==
    \/ stored = {}
    \/ \E row \in stored : row.code # code \/ Expired(row, t)

(* ======================================================================== *)
(* public/sso-client.js : the BearSSO client of one page                    *)
(* ======================================================================== *)
MaxCalls == 3

(* config.authProvider and the origin of any other window *)
authProvider == "https://bear.flights"
Origins == {authProvider, "https://elsewhere.example"}

NoUser == ""
Users == {"u1"}
NoJwt == ""

(* event.data of a message: its type and what the check page reports *)
MessageTypes == {"BEAR_SSO_CHECK", "OTHER"}
CheckData ==
    {[authenticated |-> FALSE, user |-> NoUser, token |-> NoJwt]}
      \cup [authenticated : {TRUE}, user : Users, token : {"jwt"}]
Messages == [origin : Origins, type : MessageTypes, data : CheckData]

(* how the fetch of logout() ends *)
LogoutOutcomes == {"ok", "not-ok", "threw"}

(* the object before init: authState, callbacks, and nothing in flight.    *)
(* check, listener, iframe, timer and messageReceived are those of the     *)
(* latest checkAuthIframe call; n counts the calls; authChanges, authArg,  *)
(* logouts and fromBroadcast record the calls of the two callbacks         *)
NoClient ==
    [phase |-> "unloaded", direct |-> FALSE,
     onAuthChange |-> FALSE, onLogout |-> FALSE,
     authenticated |-> FALSE, user |-> NoUser, token |-> NoJwt, lastCheck |-> -1,
     n |-> 0, check |-> "none", listener |-> FALSE, iframe |-> FALSE,
     timer |-> FALSE, messageReceived |-> FALSE,
     fetching |-> FALSE, logout |-> "idle", outcome |-> "none",
     calls |-> 0,
     authChanges |-> 0, authArg |-> NoUser, logouts |-> 0, fromBroadcast |-> FALSE]

(* ------------------------------------------------------------------------ *)
Init ==
    /\ now = 0
    /\ ticks = 0
    /\ started = 0
    /\ codes = {}
    /\ passkeys = {}
    /\ challenges = {}
    /\ sessions = [k \in Clients |-> NoSession]
    /\ expires = [k \in Clients |-> 0]
    /\ sso = NoClient
    /\ reqs = [s \in Slots |-> NoReq]
    /\ last = NoResp
    /\ consumed = [e \in Emails |-> {}]
    /\ superseded = [e \in Emails |-> {}]

(* the wall clock advances between any two steps *)
Tick ==
    /\ ticks < MaxTicks
    /\ \E d \in TickSteps : now' = now + d
    /\ ticks' = ticks + 1
    /\ UNCHANGED <<started, codes, passkeys, challenges, sessions, expires, reqs, last,
                   consumed, superseded, sso>>

(* time passing on the scale of a session's life *)
SessionSteps == {1, maxAge - 1, maxAge}

SessionTick ==
    /\ ticks < MaxTicks
    /\ \E d \in SessionSteps : now' = now + d
    /\ ticks' = ticks + 1
    /\ UNCHANGED <<started, codes, passkeys, challenges, sessions, expires, reqs, last,
                   consumed, superseded, sso>>

(* time passing on the scale of the sweeps: to the instant a code issued   *)
(* at 0 expires, and a second past it                                      *)
SweepSteps == {CODE_TTL_MS, CODE_TTL_MS + 1000}

SweepTick ==
    /\ ticks < MaxTicks
    /\ \E d \in SweepSteps : now' = now + d
    /\ ticks' = ticks + 1
    /\ UNCHANGED <<started, codes, passkeys, challenges, sessions, expires, reqs, last,
                   consumed, superseded, sso>>

(* ------------------- POST /api/auth/send-verification ------------------- *)
(* a lookup whose answer is not looked at *)
notFoundNever(member) == FALSE

(* if (!member): ghostAPI.getMemberByEmail resolved to null *)
notFound(member) == ~member

(* up to the storeCode call: validation, member lookup, code and expiry *)
SendStart(s) ==
    /\ Begin(s)
    /\ \E k \in Clients, e \in Emails \cup {NoEmail} :
         LET r == [NoReq EXCEPT !.op = "send", !.client = k, !.email = e]
         IN  IF e = NoEmail
             THEN Respond(s, r, 400, "Email is required")
             ELSE \/ Respond(s, r, 500, "Failed to send verification code")
                  \/ \E member \in BOOLEAN :
                       IF notFound(member)
                       THEN Answer(s, [Reply(r, 404, "User not found") EXCEPT
                                         !.redirectUrl = upgradeUrl])
                       ELSE \E c \in Codes :
                              Set(s, [r EXCEPT
                                        !.pc = "send_store",
                                        !.known = member,
                                        !.row = {[email |-> e, code |-> c,
                                                  expiresAt |-> ExpiresAt(now),
                                                  issuedAt |-> now]}])
    /\ UNCHANGED <<now, ticks, codes, passkeys, challenges, sessions, expires, consumed, superseded, sso>>

(* the store write lands, then sendVerificationEmail resolves or rejects *)
SendStore(s) ==
    /\ reqs[s].pc = "send_store"
    /\ LET r == reqs[s] IN
         /\ \E row \in r.row :
              /\ codes' = storeCode(codes, row)
              /\ superseded' =
                   [superseded EXCEPT ![r.email] =
                       (@ \cup {x.code : x \in CodeRows(r.email)}) \ {row.code}]
         /\ consumed' = [consumed EXCEPT ![r.email] = {}]
         /\ \/ Answer(s, [Reply(r, 200, "") EXCEPT !.mailed = TRUE])
            \/ Answer(s, [Reply(r, 500, "Failed to send verification code")
                             EXCEPT !.mailed = TRUE])
    /\ UNCHANGED <<now, ticks, started, passkeys, challenges, sessions, expires, sso>>

(* ----------------------- POST /api/auth/verify-code --------------------- *)
(* validation, then verifyCode's getCode read lands *)
VerifyStart(s) ==
    /\ Begin(s)
    /\ \E k \in Clients, e \in Emails \cup {NoEmail}, c \in Codes \cup {NoCode} :
         LET r == [NoReq EXCEPT !.op = "verify", !.client = k,
                                !.email = e, !.code = c]
         IN  IF e = NoEmail \/ c = NoCode
             THEN Respond(s, r, 400, "Email and code are required")
             ELSE Set(s, [r EXCEPT !.pc = "verify_check",
                                   !.stored = getCode(codes, e),
                                   !.replay = (c \in consumed[e]),
                                   !.overwritten = (c \in superseded[e])])
    /\ UNCHANGED <<now, ticks, codes, passkeys, challenges, sessions, expires, consumed, superseded, sso>>

(* verifyCode: the test of line 97 against Date.now() *)
VerifyCheck(s) ==
    /\ reqs[s].pc = "verify_check"
    /\ LET r == reqs[s] IN
         IF Rejected(r.stored, r.code, now)
         THEN IF Stale(r.stored, now)
              THEN Set(s, [r EXCEPT !.pc = "verify_purge"])
              ELSE Respond(s, r, 400, "Invalid or expired code")
         ELSE Set(s, [r EXCEPT !.pc = "verify_consume"])
    /\ UNCHANGED <<now, ticks, started, codes, passkeys, challenges, sessions, expires,
                   consumed, superseded, sso>>

(* verifyCode: deleteCode after an expired read, then return false *)
VerifyPurge(s) ==
    /\ reqs[s].pc = "verify_purge"
    /\ codes' = deleteCode(codes, reqs[s].email)
    /\ Respond(s, reqs[s], 400, "Invalid or expired code")
    /\ UNCHANGED <<now, ticks, started, passkeys, challenges, sessions, expires, consumed, superseded, sso>>

(* verifyCode: deleteCode after a match, then return true *)
VerifyConsume(s) ==
    /\ reqs[s].pc = "verify_consume"
    /\ codes' = deleteCode(codes, reqs[s].email)
    /\ consumed' = [consumed EXCEPT ![reqs[s].email] = @ \cup {reqs[s].code}]
    /\ Set(s, [reqs[s] EXCEPT !.pc = "verify_ghost", !.stored = {}])
    /\ UNCHANGED <<now, ticks, started, passkeys, challenges, sessions, expires, superseded, sso>>

(* getMemberByEmail resolves; labels are checked; the session is created *)
VerifyGhost(s) ==
    /\ reqs[s].pc = "verify_ghost"
    /\ LET r == reqs[s] IN
         \/ /\ Respond(s, r, 500, "Failed to verify code")
            /\ sessions' = [sessions EXCEPT ![r.client] = returned(@)]
            /\ UNCHANGED expires
         \/ /\ Respond(s, r, 404, "User not found")
            /\ sessions' = [sessions EXCEPT ![r.client] = returned(@)]
            /\ UNCHANGED expires
         \/ \E ml \in MemberLabelSets :
              LET userLabels == labelNames(ml)
                  resp(st, err) == [Reply(r, st, err) EXCEPT
                                      !.userLabels = userLabels, !.member = {ml}]
              IN  IF ~hasAccess(userLabels)
                  THEN /\ Answer(s, [resp(403, "Access denied") EXCEPT
                                        !.hasUserLabels = TRUE,
                                        !.redirectUrl = upgradeUrl])
                       /\ sessions' = [sessions EXCEPT ![r.client] = returned(@)]
                       /\ UNCHANGED expires
                  ELSE /\ sessions' = [sessions EXCEPT
                                         ![r.client] = createAuthSession(r.email, userLabels)]
                       /\ expires' = [expires EXCEPT ![r.client] = cookieExpires(now)]
                       /\ Answer(s, resp(200, ""))
    /\ UNCHANGED <<now, ticks, started, codes, passkeys, challenges, consumed, superseded, sso>>

(* periodic sweep of lib/db.js *)
CleanupExpiredCodes ==
    /\ codes' = cleanupExpiredCodes(codes, now)
    /\ codes' # codes
    /\ UNCHANGED <<now, ticks, started, passkeys, challenges, sessions, expires, reqs, last,
                   consumed, superseded, sso>>

(* ----------------------------- challenges table ------------------------- *)
(* the answer of a query of the challenges table *)
Queried(op, email, found) ==
    [NoResp EXCEPT !.op = op, !.email = email, !.found = found]

(* challengeQueries.storeChallenge.run(email, challenge) *)
StoreChallenge ==
    /\ \E e \in Emails, c \in Challenges :
         /\ challenges' = storeChallenge(challenges, e, c, now)
         /\ last' = Queried("storeChallenge", e, {})
    /\ UNCHANGED <<now, ticks, started, codes, passkeys, sessions, expires, reqs,
                   consumed, superseded, sso>>

(* challengeQueries.getChallenge.get(email) *)
GetChallenge ==
    /\ \E e \in Emails :
         last' = Queried("getChallenge", e, getChallenge(challenges, e, now))
    /\ UNCHANGED <<now, ticks, started, codes, passkeys, challenges, sessions, expires,
                   reqs, consumed, superseded, sso>>

(* challengeQueries.deleteChallenge.run(email) *)
DeleteChallenge ==
    /\ \E e \in Emails :
         /\ challenges' = deleteChallenge(challenges, e)
         /\ last' = Queried("deleteChallenge", e, {})
    /\ UNCHANGED <<now, ticks, started, codes, passkeys, sessions, expires, reqs,
                   consumed, superseded, sso>>

(* challengeQueries.cleanupExpiredChallenges.run() *)
CleanupExpiredChallenges ==
    /\ challenges' = cleanupExpiredChallenges(challenges, now)
    /\ last' = Queried("cleanupExpiredChallenges", NoEmail, {})
    /\ UNCHANGED <<now, ticks, started, codes, passkeys, sessions, expires, reqs,
                   consumed, superseded, sso>>

(* ------------------------------ passkeys table -------------------------- *)
(* a verified registration persists the credential *)
CreatePasskey ==
    /\ \E e \in Emails, cid \in CredIds, n \in 0..MaxCounter :
         /\ findPasskeyByCredentialId(passkeys, cid) = {}
         /\ passkeys' = createPasskey(passkeys, e, cid, n)
    /\ UNCHANGED <<challenges, now, ticks, started, codes, sessions, expires, reqs, last,
                   consumed, superseded, sso>>

(* passkeyQueries.updatePasskeyCounter.run(counter, credentialId) *)
UpdatePasskeyCounter ==
    /\ \E cid \in CredIds, n \in 0..MaxCounter :
         /\ passkeys' = updatePasskeyCounter(passkeys, n, cid)
         /\ passkeys' # passkeys
    /\ UNCHANGED <<challenges, now, ticks, started, codes, sessions, expires, reqs, last,
                   consumed, superseded, sso>>

(* --------------------- POST /api/passkey/register-start ----------------- *)
(* the session test, then the call of passkeyAuth.generateRegistration *)
RegisterStart(s) ==
    /\ Begin(s)
    /\ \E k \in Clients, e \in Emails \cup {NoEmail} :
         LET r == [NoReq EXCEPT !.op = "register-start", !.client = k,
                                !.sess = Session(k)]
             userEmail == IF e # NoEmail THEN e ELSE Session(k).userEmail
         IN  IF ~isAuthenticated(Session(k))
             THEN Respond(s, r, 401, "Not authenticated")
             ELSE Set(s, [r EXCEPT !.pc = "register_options",
                                   !.email = userEmail, !.invoked = TRUE])
    /\ UNCHANGED <<now, ticks, codes, passkeys, challenges, sessions, expires,
                   consumed, superseded, sso>>

(* generateRegistration resolves with options, its challenge persisted by  *)
(* email, or it throws                                                     *)
RegisterOptions(s) ==
    /\ reqs[s].pc = "register_options"
    /\ LET r == reqs[s] IN
         \/ /\ Respond(s, r, 500, "Failed to start passkey registration")
            /\ UNCHANGED challenges
         \/ \E c \in Challenges :
              /\ challenges' = storeChallenge(challenges, r.email, c, now)
              /\ Respond(s, r, 200, "")
    /\ UNCHANGED <<now, ticks, started, codes, passkeys, sessions, expires,
                   consumed, superseded, sso>>

(* --------------------- POST /api/passkey/register-finish ---------------- *)
(* the session test, then the call of passkeyAuth.verifyRegistration *)
RegisterFinish(s) ==
    /\ Begin(s)
    /\ \E k \in Clients, e \in Emails \cup {NoEmail}, cid \in CredIds :
         LET r == [NoReq EXCEPT !.op = "register-finish", !.client = k,
                                !.sess = Session(k), !.cred = cid]
             userEmail == IF e # NoEmail THEN e ELSE Session(k).userEmail
         IN  IF ~isAuthenticated(Session(k))
             THEN Respond(s, r, 401, "Not authenticated")
             ELSE Set(s, [r EXCEPT !.pc = "register_verify",
                                   !.email = userEmail, !.invoked = TRUE])
    /\ UNCHANGED <<now, ticks, codes, passkeys, challenges, sessions, expires,
                   consumed, superseded, sso>>

(* verifyRegistration resolves: it throws, reports a failure, or, a        *)
(* challenge being on file, persists the credential with counter 0         *)
RegisterVerify(s) ==
    /\ reqs[s].pc = "register_verify"
    /\ LET r == reqs[s] IN
         \/ /\ Respond(s, r, 500, "Failed to complete passkey registration")
            /\ UNCHANGED <<passkeys, challenges>>
         \/ /\ Respond(s, r, 400, "Failed to verify passkey registration")
            /\ UNCHANGED <<passkeys, challenges>>
         \/ /\ getChallenge(challenges, r.email, now) # {}
            /\ findPasskeyByCredentialId(passkeys, r.cred) = {}
            /\ passkeys' = createPasskey(passkeys, r.email, r.cred, 0)
            /\ challenges' = deleteChallenge(challenges, r.email)
            /\ Answer(s, [Reply(r, 200, "") EXCEPT !.success = TRUE])
    /\ UNCHANGED <<now, ticks, started, codes, sessions, expires, consumed, superseded, sso>>

(* ---------------------- POST /api/passkey/login-start ------------------- *)
(* error.message of what passkeyAuth.generateAuthentication throws *)
ExceptionMessages == {"", "No passkeys found"}

(* error.message || 'Failed to start passkey authentication' *)
loginStartError(message) ==
    IF message # "" THEN message ELSE "Failed to start passkey authentication"

(* the handler awaits passkeyAuth.generateAuthentication(email || null) *)
LoginOptionsStart(s) ==
    /\ Begin(s)
    /\ \E k \in Clients :
         Set(s, [NoReq EXCEPT !.op = "login-start", !.pc = "login_options",
                              !.client = k])
    /\ UNCHANGED <<now, ticks, codes, passkeys, challenges, sessions, expires, consumed, superseded, sso>>

(* generateAuthentication resolves with the options, or throws *)
LoginOptions(s) ==
    /\ reqs[s].pc = "login_options"
    /\ \/ Respond(s, reqs[s], 200, "")
       \/ \E message \in ExceptionMessages :
            Answer(s, [Reply(reqs[s], 500, loginStartError(message)) EXCEPT
                         !.thrown = message])
    /\ UNCHANGED <<now, ticks, started, codes, passkeys, challenges, sessions, expires,
                   consumed, superseded, sso>>

(* ---------------------- POST /api/passkey/login-finish ------------------ *)
(* the handler awaits passkeyAuth.verifyAuthentication(email || null, credential) *)
LoginStart(s) ==
    /\ Begin(s)
    /\ \E k \in Clients, e \in Emails \cup {NoEmail}, cid \in CredIds :
         Set(s, [NoReq EXCEPT !.op = "login", !.pc = "login_verify",
                              !.client = k, !.emailParam = e, !.cred = cid])
    /\ UNCHANGED <<now, ticks, codes, passkeys, challenges, sessions, expires, consumed, superseded, sso>>

(* verifyAuthentication resolves: it throws, or reports verified with the   *)
(* credential's email and the authenticator's counter; the handler tests    *)
(* result.verified alone                                                    *)
LoginVerify(s) ==
    /\ reqs[s].pc = "login_verify"
    /\ LET r == reqs[s] IN
         \/ Respond(s, r, 500, "Failed to complete passkey authentication")
         \/ Respond(s, r, 400, "Failed to verify passkey")
         \/ \E row \in findPasskeyByCredentialId(passkeys, r.cred),
               n \in 0..MaxCounter :
              Set(s, [r EXCEPT !.pc = "login_ghost", !.email = row.email,
                               !.newCounter = n, !.seenCounter = row.counter])
    /\ UNCHANGED <<now, ticks, started, codes, passkeys, challenges, sessions, expires,
                   consumed, superseded, sso>>

(* the member is looked up by the request's email when there is one *)
memberEmailFromRequest(emailParam, resultEmail) ==
    IF emailParam # NoEmail THEN emailParam ELSE resultEmail

(* ghostAPI.getMemberByEmail(result.email): the member's email *)
memberEmail(emailParam, resultEmail) == resultEmail

(* getMemberByEmail(result.email) resolves; labels; session *)
LoginGhost(s) ==
    /\ reqs[s].pc = "login_ghost"
    /\ LET r == reqs[s] IN
         \/ /\ Respond(s, r, 500, "Failed to complete passkey authentication")
            /\ sessions' = [sessions EXCEPT ![r.client] = returned(@)]
            /\ UNCHANGED expires
         \/ /\ Respond(s, r, 404, "User not found in system")
            /\ sessions' = [sessions EXCEPT ![r.client] = returned(@)]
            /\ UNCHANGED expires
         \/ \E ml \in MemberLabelSets :
              LET userLabels == labelNames(ml)
                  resp(st, err) == [Reply(r, st, err) EXCEPT
                                      !.userLabels = userLabels, !.member = {ml}]
              IN  IF ~hasAccess(userLabels)
                  THEN /\ Answer(s, [resp(403, "Access denied") EXCEPT
                                        !.hasUserLabels = TRUE,
                                        !.redirectUrl = upgradeUrl])
                       /\ sessions' = [sessions EXCEPT ![r.client] = returned(@)]
                       /\ UNCHANGED expires
                  ELSE /\ sessions' = [sessions EXCEPT
                                         ![r.client] = createAuthSession(
                                             memberEmail(r.emailParam, r.email),
                                             userLabels)]
                       /\ expires' = [expires EXCEPT ![r.client] = cookieExpires(now)]
                       /\ Answer(s, [resp(200, "") EXCEPT
                                        !.emailParam = r.emailParam])
    /\ UNCHANGED <<now, ticks, started, codes, passkeys, challenges, consumed, superseded, sso>>

(* ----------------------------- GET /auth/callback ----------------------- *)
Callback(s) ==
    /\ Begin(s)
    /\ \E k \in Clients, token \in Tokens :
         LET r == [NoReq EXCEPT !.op = "callback", !.client = k,
                                !.email = token.email, !.sess = Session(k)]
             resp(st, err) == [Reply(r, st, err) EXCEPT !.token = token]
         IN  IF ~token.present
             THEN /\ Answer(s, resp(400, "Missing authentication token"))
                  /\ UNCHANGED <<sessions, expires>>
             ELSE IF ~jwtVerify(token)
             THEN /\ Answer(s, resp(500, "Authentication failed"))
                  /\ UNCHANGED <<sessions, expires>>
             ELSE IF token.iss # "bear.flights"
             THEN /\ Answer(s, resp(401, "Invalid token issuer"))
                  /\ UNCHANGED <<sessions, expires>>
             ELSE /\ sessions' = [sessions EXCEPT
                                    ![k] = createAuthSession(token.email, token.labels)]
                  /\ expires' = [expires EXCEPT ![k] = cookieExpires(now)]
                  /\ Answer(s, [resp(302, "") EXCEPT !.location = "/",
                                                     !.userLabels = token.labels])
    /\ UNCHANGED <<now, ticks, codes, passkeys, challenges, consumed, superseded, sso>>

(* ---------------------------- POST /api/auth/logout --------------------- *)
Logout(s) ==
    /\ Begin(s)
    /\ \E k \in Clients :
         LET r == [NoReq EXCEPT !.op = "logout", !.client = k,
                                !.sess = Session(k)]
         IN  IF destroySessionThrows(Session(k))
             THEN /\ Respond(s, r, 500, "Logout failed")
                  /\ UNCHANGED <<sessions, expires>>
             ELSE /\ sessions' = [sessions EXCEPT ![k] = destroySession(@)]
                  /\ UNCHANGED expires
                  /\ Answer(s, [Reply(r, 200, "") EXCEPT !.success = TRUE])
    /\ UNCHANGED <<now, ticks, codes, passkeys, challenges, consumed, superseded, sso>>

(* ---------------------------- GET /api/auth/status ---------------------- *)
Status(s) ==
    /\ Begin(s)
    /\ \E k \in Clients :
         /\ LET r == [NoReq EXCEPT !.op = "status", !.client = k,
                                   !.sess = Session(k)]
            IN  IF isAuthenticated(Session(k))
                THEN Answer(s, [Reply(r, 200, "") EXCEPT
                                  !.authenticated = TRUE,
                                  !.email = Session(k).userEmail,
                                  !.userLabels = Session(k).userLabels])
                ELSE Answer(s, [Reply(r, 200, "") EXCEPT !.authenticated = FALSE])
         /\ expires' = [expires EXCEPT ![k] = touch(@, now)]
    /\ UNCHANGED <<now, ticks, codes, passkeys, challenges, sessions,
                   consumed, superseded, sso>>

(* ------------------ app.use('/', requireAuth, requireLabels, ...) ------- *)
Proxy(s) ==
    /\ Begin(s)
    /\ \E k \in Clients :
         /\ LET r == [NoReq EXCEPT !.op = "proxy", !.client = k,
                                   !.sess = Session(k)]
            IN  IF ~requireAuth(Session(k))
                THEN Answer(s, [Reply(r, 302, "") EXCEPT !.location = ssoUrl])
                ELSE IF ~requireLabels(Session(k))
                THEN Answer(s, [Reply(r, 403, "Access denied") EXCEPT
                                  !.redirectUrl = upgradeUrl])
                ELSE Set(s, [r EXCEPT !.pc = "proxy_upstream", !.forwarded = TRUE])
         /\ expires' = [expires EXCEPT ![k] = touch(@, now)]
    /\ UNCHANGED <<now, ticks, codes, passkeys, challenges, sessions, consumed, superseded, sso>>

UpstreamStatuses == {200, 404}

(* the timeout of the axios call in milliseconds: the config names none,   *)
(* and 0 is no timeout                                                     *)
axiosTimeout == 0

(* the axios call resolves with the status and headers, or throws; when    *)
(* the backend never answers it throws once the timeout is over, if there  *)
(* is one, and stays pending otherwise                                     *)
ProxyUpstream(s) ==
    /\ reqs[s].pc = "proxy_upstream"
    /\ \/ Respond(s, reqs[s], 502, "Failed to fetch content")
       \/ IF axiosTimeout > 0
          THEN Respond(s, reqs[s], 502, "Failed to fetch content")
          ELSE Set(s, [reqs[s] EXCEPT !.pc = "proxy_waiting"])
       \/ \E st \in UpstreamStatuses, ct \in ContentTypes :
            Set(s, [reqs[s] EXCEPT
                      !.pc = IF isHtml(ct) THEN "proxy_html" ELSE "proxy_pipe",
                      !.upstreamStatus = st, !.contentType = ct])
    /\ UNCHANGED <<now, ticks, started, codes, passkeys, challenges, sessions, expires,
                   consumed, superseded, sso>>

(* response.data.on('data'): htmlContent += chunk.toString() *)
ProxyData(s) ==
    /\ reqs[s].pc = "proxy_html"
    /\ \E chunk \in Chunks :
         /\ Len(reqs[s].delivered) + Len(chunk) <= MaxBody
         /\ Set(s, [reqs[s] EXCEPT
                      !.delivered = @ \o chunk,
                      !.htmlContent = @ \o toString(chunk)])
    /\ UNCHANGED <<now, ticks, started, codes, passkeys, challenges, sessions, expires,
                   consumed, superseded, sso>>

(* response.data.on('end'): the script is put in, content-length is set,   *)
(* the body is sent                                                         *)
ProxyEnd(s) ==
    /\ reqs[s].pc = "proxy_html"
    /\ LET r == reqs[s]
           modifiedHtml == replace(r.htmlContent, "</body>", ssoScript)
       IN  Answer(s, [Reply(r, r.upstreamStatus, "") EXCEPT
                        !.body = encode(modifiedHtml),
                        !.contentLength = byteLength(modifiedHtml)])
    /\ UNCHANGED <<now, ticks, started, codes, passkeys, challenges, sessions, expires,
                   consumed, superseded, sso>>

(* response.data.on('error') *)
ProxyError(s) ==
    /\ reqs[s].pc = "proxy_html"
    /\ Answer(s, [Reply(reqs[s], 502, "Failed to fetch content") EXCEPT
                     !.streamFailed = TRUE])
    /\ UNCHANGED <<now, ticks, started, codes, passkeys, challenges, sessions, expires,
                   consumed, superseded, sso>>

(* response.data.pipe(res): a chunk of the upstream goes to the client *)
ProxyPipe(s) ==
    /\ reqs[s].pc = "proxy_pipe"
    /\ \E chunk \in Chunks :
         /\ Len(reqs[s].delivered) + Len(chunk) <= MaxBody
         /\ Set(s, [reqs[s] EXCEPT
                      !.delivered = @ \o chunk,
                      !.written = @ \o pipe(chunk)])
    /\ UNCHANGED <<now, ticks, started, codes, passkeys, challenges, sessions, expires,
                   consumed, superseded, sso>>

(* the upstream ends and pipe ends the response *)
ProxyPipeEnd(s) ==
    /\ reqs[s].pc = "proxy_pipe"
    /\ Answer(s, [Reply(reqs[s], reqs[s].upstreamStatus, "") EXCEPT
                     !.body = reqs[s].written])
    /\ UNCHANGED <<now, ticks, started, codes, passkeys, challenges, sessions, expires,
                   consumed, superseded, sso>>

(* the upstream stream fails while it is piped: no handler listens, pipe   *)
(* unpipes without ending the response, so what was written stays written  *)
(* and the response is left open, or the connection is cut                 *)
ProxyPipeError(s) ==
    /\ reqs[s].pc = "proxy_pipe"
    /\ \/ Set(s, [reqs[s] EXCEPT !.pc = "proxy_open"])
       \/ Answer(s, [Reply(reqs[s], reqs[s].upstreamStatus, "") EXCEPT
                        !.body = reqs[s].written, !.streamFailed = TRUE])
    /\ UNCHANGED <<now, ticks, started, codes, passkeys, challenges, sessions, expires,
                   consumed, superseded, sso>>

(* ----------------- public/sso-client.js : the handlers ----------------- *)
(* a client that calls onAuthChange on every update *)
changedAlways(wasAuthenticated, authenticated) == TRUE

(* wasAuthenticated !== authenticated *)
changed(wasAuthenticated, authenticated) == wasAuthenticated # authenticated

(* updateAuthState(authenticated, user, token) at Date.now() = t *)
updateAuthState(st, authenticated, user, token, t) ==
    LET st1 == [st EXCEPT !.authenticated = authenticated, !.user = user,
                          !.token = token, !.lastCheck = t]
    IN  IF changed(st.authenticated, authenticated) /\ st.onAuthChange
        THEN [st1 EXCEPT !.authChanges = @ + 1, !.authArg = user]
        ELSE st1

(* handleLogout(fromBroadcast) *)
handleLogout(st, fromBroadcast, t) ==
    LET st1 == updateAuthState(st, FALSE, NoUser, NoJwt, t)
    IN  IF st1.onLogout
        THEN [st1 EXCEPT !.logouts = @ + 1, !.fromBroadcast = fromBroadcast]
        ELSE st1

(* a catch that only logs *)
caughtLogged(st, t) == st

(* catch (error) { this.handleLogout(false) } *)
caught(st, t) == handleLogout(st, FALSE, t)

(* checkAuthIframe up to its return: the listener, the timer, the iframe *)
checkAuthIframe(st) ==
    [st EXCEPT !.n = @ + 1, !.check = "pending", !.listener = TRUE,
               !.iframe = TRUE, !.timer = TRUE, !.messageReceived = FALSE]

(* checkAuthDirect up to its await of fetch *)
checkAuthDirect(st) == [st EXCEPT !.fetching = TRUE]

(* no check is in flight *)
Quiet(st) == ~st.listener /\ ~st.timer /\ ~st.fetching

ClientFrame ==
    UNCHANGED <<now, ticks, started, codes, passkeys, challenges, sessions, expires,
                reqs, last, consumed, superseded>>

(* BearSSO.init(options): the callbacks of the options and the first check *)
ClientInit ==
    /\ sso.phase = "unloaded"
    /\ \E isBearSubdomain \in BOOLEAN, onAuthChange \in BOOLEAN, onLogout \in BOOLEAN :
         LET st == [sso EXCEPT !.phase = "ready", !.direct = isBearSubdomain,
                               !.onAuthChange = onAuthChange,
                               !.onLogout = onLogout]
         IN  sso' = IF isBearSubdomain THEN checkAuthDirect(st)
                                       ELSE checkAuthIframe(st)
    /\ ClientFrame

(* the setInterval callback, a check being over *)
IntervalCheck ==
    /\ sso.phase = "ready"
    /\ sso.calls < MaxCalls
    /\ Quiet(sso)
    /\ LET st == [sso EXCEPT !.calls = @ + 1]
       IN  sso' = IF sso.direct THEN checkAuthDirect(st) ELSE checkAuthIframe(st)
    /\ ClientFrame

(* checkAuthDirect after its awaits: the status read, or the catch *)
DirectDone ==
    /\ sso.fetching
    /\ LET st == [sso EXCEPT !.fetching = FALSE] IN
         \/ \E d \in CheckData :
              sso' = updateAuthState(st, d.authenticated, d.user, NoJwt, now)
         \/ sso' = updateAuthState(st, FALSE, NoUser, NoJwt, now)
    /\ ClientFrame

(* messageHandler(event) *)
IframeMessage ==
    /\ sso.listener
    /\ \E event \in Messages :
         IF event.origin # authProvider
         THEN sso' = sso
         ELSE LET st1 == [sso EXCEPT !.messageReceived = TRUE, !.timer = FALSE]
                  st2 == IF event.type = "BEAR_SSO_CHECK"
                         THEN [updateAuthState(st1, event.data.authenticated,
                                               event.data.user, event.data.token, now)
                                 EXCEPT !.check = "resolved"]
                         ELSE st1
              IN  sso' = [st2 EXCEPT !.listener = FALSE, !.iframe = FALSE]
    /\ ClientFrame

(* the setTimeout callback after config.iframeTimeout *)
IframeTimeout ==
    /\ sso.timer
    /\ LET st == [sso EXCEPT !.timer = FALSE] IN
         IF ~sso.messageReceived
         THEN sso' = [updateAuthState([st EXCEPT !.listener = FALSE,
                                                 !.iframe = FALSE],
                                      FALSE, NoUser, NoJwt, now)
                        EXCEPT !.check = "rejected"]
         ELSE sso' = st
    /\ ClientFrame

(* logout() up to its await of fetch *)
ClientLogout ==
    /\ sso.phase = "ready"
    /\ sso.calls < MaxCalls
    /\ sso.logout = "idle"
    /\ sso' = [sso EXCEPT !.calls = @ + 1, !.logout = "fetching",
                          !.outcome = "none"]
    /\ ClientFrame

(* logout() after its awaits: the broadcast and handleLogout(false), or    *)
(* the catch                                                               *)
ClientLogoutDone ==
    /\ sso.logout = "fetching"
    /\ \E outcome \in LogoutOutcomes :
         LET st == [sso EXCEPT !.logout = "idle", !.outcome = outcome]
         IN  sso' = IF outcome = "ok" THEN handleLogout(st, FALSE, now)
                                      ELSE caught(st, now)
    /\ ClientFrame

(* the storage listener: bear_sso_logout set by another tab *)
StorageLogout ==
    /\ sso.phase = "ready"
    /\ sso.calls < MaxCalls
    /\ sso' = handleLogout([sso EXCEPT !.calls = @ + 1], TRUE, now)
    /\ ClientFrame

(* ------------------------------ specifications -------------------------- *)
NextCode ==
    \/ Tick
    \/ CleanupExpiredCodes
    \/ \E s \in Slots :
         \/ SendStart(s) \/ SendStore(s)
         \/ VerifyStart(s) \/ VerifyCheck(s)
         \/ VerifyPurge(s) \/ VerifyConsume(s) \/ VerifyGhost(s)

SpecCode == Init /\ [][NextCode]_vars

NextPasskey ==
    \/ CreatePasskey
    \/ UpdatePasskeyCounter
    \/ \E s \in Slots : LoginStart(s) \/ LoginVerify(s) \/ LoginGhost(s)

SpecPasskey == Init /\ [][NextPasskey]_vars

(* the sign-in forms and the gate within the lifetime of a code; the       *)
(* backend answers with empty bodies                                       *)
NextGateway ==
    \/ CreatePasskey
    \/ \E s \in Slots :
         \/ SendStart(s) \/ SendStore(s)
         \/ VerifyStart(s) \/ VerifyCheck(s)
         \/ VerifyConsume(s) \/ VerifyGhost(s)
         \/ LoginStart(s) \/ LoginVerify(s) \/ LoginGhost(s)
         \/ Callback(s) \/ Logout(s)
         \/ Proxy(s) \/ ProxyUpstream(s)
         \/ ProxyEnd(s) \/ ProxyError(s) \/ ProxyPipeEnd(s)

SpecGateway == Init /\ [][NextGateway]_vars

(* the two sign-in forms within the lifetime of a code *)
NextSignIn ==
    \/ CreatePasskey
    \/ \E s \in Slots :
         \/ SendStart(s) \/ SendStore(s)
         \/ VerifyStart(s) \/ VerifyCheck(s)
         \/ VerifyConsume(s) \/ VerifyGhost(s)
         \/ LoginStart(s) \/ LoginVerify(s) \/ LoginGhost(s)

SpecSignIn == Init /\ [][NextSignIn]_vars

(* the session of a connection: its creation by a token, its destruction,  *)
(* and the routes that test it; the backend answers with empty bodies      *)
NextSession ==
    \E s \in Slots :
       \/ Callback(s) \/ Logout(s) \/ Status(s)
       \/ RegisterStart(s) \/ RegisterOptions(s)
       \/ RegisterFinish(s) \/ RegisterVerify(s)
       \/ Proxy(s) \/ ProxyUpstream(s)
       \/ ProxyEnd(s) \/ ProxyError(s) \/ ProxyPipeEnd(s)

SpecSession == Init /\ [][NextSession]_vars

(* the proxy behind the gate: the requests of a connection one after the   *)
(* other, since two proxied requests share nothing but the session         *)
NextProxy ==
    \/ Callback("r1")
    \/ Proxy("r1") \/ ProxyUpstream("r1")
    \/ ProxyData("r1") \/ ProxyEnd("r1") \/ ProxyError("r1")
    \/ ProxyPipe("r1") \/ ProxyPipeEnd("r1") \/ ProxyPipeError("r1")

SpecProxy == Init /\ [][NextProxy]_vars

(* the proxy with every handler step taken once it can be *)
FairProxy == SpecProxy /\ WF_vars(NextProxy)

(* the email form within the lifetime of a code *)
NextIssue ==
    \E s \in Slots :
       \/ SendStart(s) \/ SendStore(s)
       \/ VerifyStart(s) \/ VerifyCheck(s)
       \/ VerifyConsume(s) \/ VerifyGhost(s)

SpecIssue == Init /\ [][NextIssue]_vars

(* the challenges table under its queries and the clock *)
NextChallenge ==
    \/ Tick
    \/ StoreChallenge \/ GetChallenge
    \/ DeleteChallenge \/ CleanupExpiredChallenges

SpecChallenge == Init /\ [][NextChallenge]_vars

(* passkey sign-in alone: credentials on file, login-start and            *)
(* login-finish requests                                                   *)
NextLogin ==
    \/ CreatePasskey
    \/ \E s \in Slots :
         \/ LoginOptionsStart(s) \/ LoginOptions(s)
         \/ LoginStart(s) \/ LoginVerify(s) \/ LoginGhost(s)

SpecLogin == Init /\ [][NextLogin]_vars

(* the two sweeps over tables that only issuance fills, the codes issued  *)
(* one after the other                                                     *)
NextSweep ==
    \/ SweepTick
    \/ CleanupExpiredCodes
    \/ StoreChallenge \/ CleanupExpiredChallenges
    \/ SendStart("r1") \/ SendStore("r1")

SpecSweep == Init /\ [][NextSweep]_vars

(* a session over its seven days: created by the callback, read by the    *)
(* status route and by the gate of the proxy                               *)
NextExpiry ==
    \/ SessionTick
    \/ \E s \in Slots : Callback(s) \/ Status(s) \/ Proxy(s) \/ Logout(s)

SpecExpiry == Init /\ [][NextExpiry]_vars

(* the page: init, the periodic checks, logout and the other tabs *)
NextClient ==
    \/ ClientInit \/ IntervalCheck
    \/ DirectDone \/ IframeMessage \/ IframeTimeout
    \/ ClientLogout \/ ClientLogoutDone \/ StorageLogout

SpecClient == Init /\ [][NextClient]_vars

(* a timer that is armed fires, and a step of the page that can be taken   *)
(* is taken                                                                *)
FairClient == SpecClient /\ WF_vars(NextClient) /\ WF_vars(IframeTimeout)

Next ==
    \/ NextCode \/ NextPasskey \/ NextGateway \/ NextSession \/ NextLogin
    \/ NextChallenge \/ NextExpiry \/ NextSweep \/ NextClient

Spec == Init /\ [][Next]_vars

(* ======================================================================== *)
(* Properties of the verification-code lifecycle                            *)
(* ======================================================================== *)
Accepted(s) == reqs[s].pc \in {"verify_consume", "verify_ghost"}

(* the step by which verifyCode's test of a read record is made *)
Checks(s) == reqs[s].pc = "verify_check" /\ reqs'[s].pc # "verify_check"

(* C2: single use. A verify(E, c) whose read comes after a verify(E, c)    *)
(* returned true, with no code stored for E in between, is never accepted  *)
(* and is answered 400.                                                     *)
C2_SingleUse ==
    /\ \A s \in Slots : Accepted(s) => ~reqs[s].replay
    /\ (last.op = "verify" /\ last.replay) =>
          (last.status = 400 /\ last.error = "Invalid or expired code")

C2_Witness ==
    /\ last.op = "verify" /\ last.replay /\ last.status = 400
    /\ last.code \in consumed[last.email]

(* C3: after a second issuance for E the table holds exactly one row for E, *)
(* the second one, and a verify with the overwritten code is rejected.      *)
C3_OverwriteState ==
    /\ \A e \in Emails :
         /\ Cardinality(CodeRows(e)) <= 1
         /\ \A row \in CodeRows(e) : row.code \notin superseded[e]
    /\ \A s \in Slots : Accepted(s) => ~reqs[s].overwritten
    /\ (last.op = "verify" /\ last.overwritten) => last.status = 400

C3_OverwriteStep ==
    \A s \in Slots :
       (reqs[s].pc = "send_store" /\ reqs'[s].pc # "send_store") =>
           {[email |-> x.email, code |-> x.code] : x \in RowsOf(codes', reqs[s].email)} =
           {[email |-> x.email, code |-> x.code] : x \in reqs[s].row}

C3_Overwrite == []C3_OverwriteState /\ [][C3_OverwriteStep]_vars

C3_Witness ==
    /\ last.op = "verify" /\ last.overwritten /\ last.status = 400
    /\ superseded[last.email] # {}
    /\ Cardinality(CodeRows(last.email)) = 1

(* C4: a verify whose read record has expired at the time of the test is    *)
(* not accepted, whatever the code, and its call ends by deleting E's row   *)
(* and answering 400.                                                       *)
C4_ExpiredStep ==
    \A s \in Slots :
       /\ (Checks(s) /\ \E row \in reqs[s].stored : row.expiresAt < now)
             => reqs'[s].pc = "verify_purge"
       /\ (reqs[s].pc = "verify_purge" /\ reqs'[s].pc # "verify_purge")
             => /\ RowsOf(codes', reqs[s].email) = {}
                /\ last'.status = 400
                /\ last'.error = "Invalid or expired code"

C4_ExpiredPurged == [][C4_ExpiredStep]_vars

C4_Witness ==
    /\ last.op = "verify" /\ last.status = 400
    /\ CodeRows(last.email) = {}
    /\ \E s \in Slots :
         /\ reqs[s].pc = "verify_purge"
         /\ \E row \in reqs[s].stored : row.code = reqs[s].code

(* C5: verifyCode accepts iff a record was read, its code equals the given  *)
(* code, and the time of the test is not later than its expiresAt.          *)
C5_VerifyStep ==
    \A s \in Slots :
       Checks(s) =>
          (reqs'[s].pc = "verify_consume" <=>
              \E row \in reqs[s].stored :
                  row.code = reqs[s].code /\ now <= row.expiresAt)

C5_VerifyIff == [][C5_VerifyStep]_vars

C5_Witness ==
    \E s \in Slots :
       /\ reqs[s].pc = "verify_consume"
       /\ \E row \in reqs[s].stored : row.expiresAt = now

(* C6: a verify that fails on a wrong code against an unexpired record      *)
(* answers 400 and leaves the table as it is.                               *)
C6_WrongCodeStep ==
    \A s \in Slots :
       (/\ Checks(s)
        /\ \E row \in reqs[s].stored :
              row.code # reqs[s].code /\ now <= row.expiresAt)
       => /\ codes' = codes
          /\ reqs'[s].pc = "idle"
          /\ last'.status = 400

C6_WrongCodeKeepsRecord == [][C6_WrongCodeStep]_vars

(* the right code accepted after a wrong one was answered 400 *)
C6_Witness ==
    /\ last.op = "verify" /\ last.status = 400
    /\ last.error = "Invalid or expired code"
    /\ \E s \in Slots :
         /\ reqs[s].pc = "verify_consume"
         /\ reqs[s].email = last.email
         /\ reqs[s].code # last.code
         /\ reqs[s].stored \subseteq codes

(* C7: a row issued at time t carries expiresAt = t + 600000 ms, and a      *)
(* verify with its code is accepted iff the test is made at or before it.   *)
C7_TtlState == \A row \in codes : row.expiresAt = row.issuedAt + 600000

C7_TtlStep ==
    \A s \in Slots :
       Checks(s) =>
          \A row \in reqs[s].stored :
              row.code = reqs[s].code =>
                 (reqs'[s].pc = "verify_consume" <=> now <= row.issuedAt + 600000)

C7_TenMinutes == []C7_TtlState /\ [][C7_TtlStep]_vars

C7_Witness ==
    \E s \in Slots :
       /\ reqs[s].pc = "verify_purge"
       /\ \E row \in reqs[s].stored :
             row.code = reqs[s].code /\ now = row.issuedAt + 600001

(* ======================================================================== *)
(* Properties of the gate and of the passkey counter                        *)
(* ======================================================================== *)
Entitled(sess) == sess.authenticated /\ (sess.userLabels \cap ALLOWED_LABELS) # {}

(* C1: a request to a proxied path is forwarded to the backend iff its      *)
(* session exists, is authenticated and carries an allowed label.           *)
C1_ForwardedIffEntitled ==
    /\ \A s \in Slots :
         reqs[s].op = "proxy" => (reqs[s].forwarded <=> Entitled(reqs[s].sess))
    /\ last.op = "proxy" => (last.forwarded <=> Entitled(last.sess))

(* C8: a login-finish whose reported counter is not above the stored one    *)
(* is rejected: it is not answered 200 and creates no session.              *)
C8_ReplayRejected ==
    (last.op = "login" /\ last.status = 200) =>
        last.newCounter > last.seenCounter

(* C9: of two login-finish running together on one credential that met the *)
(* same stored counter, at most one gets past verification.                 *)
C9_AtMostOnePasses ==
    \A s1, s2 \in Slots :
       (/\ s1 # s2
        /\ reqs[s1].pc = "login_ghost"
        /\ reqs[s2].pc = "login_ghost"
        /\ reqs[s1].cred = reqs[s2].cred)
       => reqs[s1].seenCounter # reqs[s2].seenCounter

(* C10: no step lowers the stored counter of a credential.                  *)
C10_CounterStep ==
    \A r1 \in passkeys : \A r2 \in passkeys' :
       r2.credentialId = r1.credentialId => r2.counter >= r1.counter

C10_CounterMonotonic == [][C10_CounterStep]_vars

(* ======================================================================== *)
(* Properties of the access policy and of the session                       *)
(* ======================================================================== *)
(* C11: every authenticated session carries labels, those of its identity   *)
(* when it was created, of which at least one is in the allow-list,         *)
(* whichever entry point created it.                                        *)
C11_SessionsSatisfyPolicy ==
    \A k \in Clients :
       sessions[k].authenticated =>
           (sessions[k].userLabels \cap ALLOWED_LABELS) # {}

(* C12: a verify-code or login-finish that resolved the member and found    *)
(* none of the label names in the allow-list answers 403 'Access denied'    *)
(* with userLabels equal to exactly the member's label names.               *)
C12_DeniedCarriesLabels ==
    (last.op \in {"verify", "login"}) =>
       \A ml \in last.member :
          ({l.name : l \in ml} \cap ALLOWED_LABELS = {}) =>
             /\ last.status = 403
             /\ last.error = "Access denied"
             /\ last.userLabels = {l.name : l \in ml}

C12_Witness ==
    /\ last.op = "verify" /\ last.status = 403
    /\ last.member = {{[name |-> "free-member", slug |-> "free"]}}
    /\ last.userLabels = {"free-member"}

(* a request that is answered within the step that started it *)
AnsweredAtOnce(op) == started' # started /\ reqs' = reqs /\ last'.op = op

(* C13: logout answers 200 with success = true whether or not a session     *)
(* exists, leaves no authenticated session, and a logout that follows a     *)
(* logout changes nothing.                                                  *)
C13_LogoutStep ==
    AnsweredAtOnce("logout") =>
       /\ last'.status = 200 /\ last'.success
       /\ ~sessions'[last'.client].authenticated
       /\ sessions[last'.client].destroyed => sessions' = sessions
       /\ <<codes, passkeys, challenges>>' = <<codes, passkeys, challenges>>

C13_LogoutIdempotent == [][C13_LogoutStep]_vars

(* a logout of a connection whose session was already destroyed *)
C13_Witness ==
    /\ last.op = "logout" /\ last.status = 200 /\ last.success
    /\ last.sess.destroyed /\ ~last.sess.authenticated
    /\ sessions[last.client] = last.sess

SignedIn(resp) ==
    \/ resp.op \in {"verify", "login"} /\ resp.status = 200
    \/ resp.op = "callback" /\ resp.status = 302

(* C14: from a logout of a connection until a sign-in succeeds on it, the   *)
(* connection has no authenticated session, status reports authenticated =  *)
(* false and no request of it is forwarded to the backend.                  *)
C14_LoggedOutState ==
    /\ \A k \in Clients : sessions[k].destroyed => ~sessions[k].authenticated
    /\ (last.op = "status" /\ last.sess.destroyed) => ~last.authenticated
    /\ (last.op = "proxy" /\ last.sess.destroyed) => ~last.forwarded
    /\ \A s \in Slots :
         (reqs[s].op = "proxy" /\ reqs[s].sess.destroyed) => ~reqs[s].forwarded

C14_LoggedOutStep ==
    /\ AnsweredAtOnce("logout") => sessions'[last'.client].destroyed
    /\ \A k \in Clients :
         (sessions[k].destroyed /\ ~sessions'[k].destroyed) =>
             /\ last'.client = k /\ SignedIn(last')
             /\ (reqs' # reqs \/ started' # started)

C14_LoggedOut == []C14_LoggedOutState /\ [][C14_LoggedOutStep]_vars

(* status asked on a connection whose session a logout destroyed *)
C14_Witness ==
    /\ last.op = "status" /\ last.status = 200 /\ ~last.authenticated
    /\ last.sess.destroyed
    /\ sessions[last.client].destroyed
    /\ started = 3

RegisterOps == {"register-start", "register-finish"}

(* C15: register-start and register-finish without an authenticated session *)
(* answer 401 'Not authenticated', never call the orchestrator and leave    *)
(* the challenges and the passkeys as they are.                             *)
C15_RegisterState ==
    /\ (last.op \in RegisterOps /\ ~last.sess.authenticated) =>
          /\ last.status = 401 /\ last.error = "Not authenticated"
          /\ ~last.invoked
    /\ \A s \in Slots :
         (reqs[s].op \in RegisterOps /\ reqs[s].invoked) =>
             reqs[s].sess.authenticated

C15_RegisterStep ==
    /\ \A op \in RegisterOps :
         (AnsweredAtOnce(op) /\ ~last'.sess.authenticated) =>
             <<challenges, passkeys>>' = <<challenges, passkeys>>
    /\ \A s \in Slots :
         (/\ reqs[s].op \in RegisterOps
          /\ <<challenges, passkeys>>' # <<challenges, passkeys>>)
         => reqs[s].sess.authenticated

C15_RegisterNeedsSession == []C15_RegisterState /\ [][C15_RegisterStep]_vars

(* a register-finish refused on a connection whose session was destroyed *)
C15_Witness ==
    /\ last.op = "register-finish" /\ last.status = 401
    /\ last.sess.destroyed /\ ~last.sess.authenticated /\ ~last.invoked
    /\ passkeys = {} /\ challenges = {}

(* C19: a request without an authenticated session is never forwarded; a    *)
(* navigation to a protected path is answered 302 with Location /signin and *)
(* register-start and register-finish are answered 401 'Not authenticated'. *)
C19_UnauthenticatedOutcome ==
    /\ (last.op = "proxy" /\ ~last.sess.authenticated) =>
          /\ ~last.forwarded
          /\ last.status = 302 /\ last.location = "/signin"
    /\ (last.op \in RegisterOps /\ ~last.sess.authenticated) =>
          (last.status = 401 /\ last.error = "Not authenticated")

(* C20: /auth/callback answers 302 to '/' and creates the session only for  *)
(* a token that is present, verifies and has issuer 'bear.flights'; a       *)
(* missing token gives 400, a wrong issuer 401, a signature that does not   *)
(* verify 500, and these three leave the sessions as they are.              *)
C20_CallbackState ==
    last.op = "callback" =>
       LET token == last.token IN
       /\ (last.status = 302) =>
              /\ token.present /\ token.signed /\ token.iss = "bear.flights"
              /\ last.location = "/"
       /\ (token.present /\ token.signed /\ ~token.expired
              /\ token.iss = "bear.flights") => last.status = 302
       /\ ~token.present => last.status = 400
       /\ (token.present /\ ~token.signed) => last.status = 500
       /\ (token.present /\ token.signed /\ ~token.expired
              /\ token.iss # "bear.flights") => last.status = 401

C20_CallbackStep ==
    AnsweredAtOnce("callback") =>
       IF last'.status = 302
       THEN sessions' = [sessions EXCEPT ![last'.client] =
                            createAuthSession(last'.token.email, last'.token.labels)]
       ELSE last'.status \in {400, 401, 500} /\ sessions' = sessions

C20_Callback == []C20_CallbackState /\ [][C20_CallbackStep]_vars

(* a token of another issuer refused while a session exists, which stays *)
C20_Witness ==
    /\ last.op = "callback" /\ last.status = 401
    /\ last.token.signed /\ last.token.iss = "other"
    /\ sessions[last.client].authenticated
    /\ sessions[last.client] = last.sess

(* ======================================================================== *)
(* Properties of the proxied response                                       *)
(* ======================================================================== *)
(* a response that came from the backend, of the given content types *)
Proxied(resp, types) ==
    /\ resp.op = "proxy" /\ resp.forwarded
    /\ resp.error = "" /\ resp.contentType \in types

RECURSIVE WireLength(_)
WireLength(bytes) ==
    IF bytes = <<>> THEN 0 ELSE Width(bytes[1]) + WireLength(Tail(bytes))

(* C16: every proxied HTML response has the script block immediately       *)
(* before a closing body tag, whatever the upstream body was, and a        *)
(* content-length equal to the byte length of the body sent.                *)
C16_HtmlInjected ==
    Proxied(last, HtmlTypes) =>
       /\ \E i \in 1..(Len(last.body) - 1) :
             last.body[i] = "SSO_SCRIPT" /\ last.body[i + 1] = "</body>"
       /\ last.contentLength = WireLength(last.body)

(* C17: an upstream HTML body with more than one closing body tag is sent   *)
(* with the script block put in once, immediately before the last of them,  *)
(* and every other byte as it was.                                          *)
C17_BeforeLast ==
    (/\ Proxied(last, HtmlTypes)
     /\ Cardinality(Occurrences(last.delivered, "</body>")) > 1)
    => LET i == Max(Occurrences(last.delivered, "</body>"))
       IN  last.body = SubSeq(last.delivered, 1, i - 1) \o <<"SSO_SCRIPT">>
                         \o SubSeq(last.delivered, i, Len(last.delivered))

(* C18: a proxied response that is not HTML carries the upstream status and *)
(* a body that is, byte for byte and in order, what the upstream delivered, *)
(* with nothing put in.                                                     *)
C18_NonHtmlUntouched ==
    /\ \A s \in Slots :
         reqs[s].pc = "proxy_pipe" => reqs[s].written = reqs[s].delivered
    /\ Proxied(last, ContentTypes \ HtmlTypes) =>
          /\ last.status = last.upstreamStatus
          /\ last.body = last.delivered
          /\ \A i \in 1..Len(last.body) : last.body[i] # "SSO_SCRIPT"

(* a JSON answer of status 404 holding a closing tag and half a character *)
C18_Witness ==
    /\ Proxied(last, {"application/json"})
    /\ last.status = 404
    /\ last.body = <<"</body>", "C3">>
(* ======================================================================== *)
(* Properties of the error outcomes and of concurrent requests              *)
(* ======================================================================== *)

C21_WitnessNull ==
    /\ last.op = "login" /\ last.status = 200
    /\ last.emailParam = NoEmail

(* C22: every policy-denied outcome is a 403 whose body carries the user's *)
(* labels and a redirect target: at sign-in when the member has no allowed *)
(* label, and at the gate for an authenticated session with an email whose *)
(* labels are not allowed; it is never a 401 or a redirect to sign-in      *)
C22_PolicyDenied ==
    /\ (last.op \in {"verify", "login"}) =>
          \A ml \in last.member :
             ({l.name : l \in ml} \cap ALLOWED_LABELS = {}) =>
                /\ last.status = 403
                /\ last.hasUserLabels
                /\ last.userLabels = {l.name : l \in ml}
                /\ last.redirectUrl # ""
    /\ (/\ last.op = "proxy"
        /\ last.sess.authenticated
        /\ last.sess.userEmail # NoEmail
        /\ last.sess.userLabels \cap ALLOWED_LABELS = {}) =>
          /\ last.status = 403
          /\ last.hasUserLabels
          /\ last.userLabels = last.sess.userLabels
          /\ last.redirectUrl # ""

(* the sign-in half of C22 alone *)
C22_SignInDenied ==
    (last.op \in {"verify", "login"}) =>
       \A ml \in last.member :
          ({l.name : l \in ml} \cap ALLOWED_LABELS = {}) =>
             /\ last.status = 403
             /\ last.hasUserLabels
             /\ last.redirectUrl # ""

(* C23: every 404 of send-verification, verify-code and login-finish       *)
(* carries a redirect target                                               *)
C23_NotFoundRedirects ==
    (last.op \in {"send", "verify", "login"} /\ last.status = 404) =>
        last.redirectUrl # ""

(* the send-verification third of C23 alone *)
C23_SendNotFoundRedirects ==
    (last.op = "send" /\ last.status = 404) => last.redirectUrl = upgradeUrl

(* the texts the handlers write into the body of a 500 or a 502 *)
FixedMessages ==
    {"Failed to send verification code", "Failed to verify code",
     "Failed to start passkey registration",
     "Failed to complete passkey registration",
     "Failed to start passkey authentication",
     "Failed to complete passkey authentication",
     "Authentication failed", "Logout failed", "Failed to fetch content"}

(* C24: a 500 or 502 carries one of the handlers' fixed messages, and no   *)
(* response carries the text of the exception that was thrown              *)
C24_FixedMessage ==
    /\ (last.status \in {500, 502}) => last.error \in FixedMessages
    /\ (last.thrown # "") => last.error # last.thrown

(* C25: no proxied response is left incomplete, and when the upstream      *)
(* stream failed the client got the generic 502 and nothing of the         *)
(* upstream body                                                           *)
C25_StreamFailure502 ==
    /\ \A s \in Slots : reqs[s].pc # "proxy_open"
    /\ (last.op = "proxy" /\ last.streamFailed) =>
          /\ last.status = 502
          /\ last.error = "Failed to fetch content"
          /\ last.body = <<>>

(* the HTML half of C25 alone *)
C25_HtmlFailure502 ==
    (last.op = "proxy" /\ last.streamFailed /\ isHtml(last.contentType)) =>
        /\ last.status = 502
        /\ last.error = "Failed to fetch content"
        /\ last.body = <<>>

(* C26: a proxied request whose upstream call was made is answered in the  *)
(* end, the upstream answering or not                                      *)
C26_UpstreamTimeout ==
    (reqs["r1"].pc = "proxy_upstream") ~>
        (reqs["r1"].pc \notin {"proxy_upstream", "proxy_waiting"})

(* C27: no two verify requests pass the test of verifyCode on the same     *)
(* stored record: of two concurrent requests with the same email and the   *)
(* same valid code at most one is on its way to return true                *)
C27_AtomicConsume ==
    \A s1, s2 \in Slots :
       (/\ s1 # s2
        /\ reqs[s1].pc = "verify_consume"
        /\ reqs[s2].pc = "verify_consume"
        /\ reqs[s1].email = reqs[s2].email
        /\ reqs[s1].code = reqs[s2].code) =>
           reqs[s1].stored # reqs[s2].stored

(* C28: last writer wins. The store write of a send-verification puts its  *)
(* whole record in the place of whatever was stored for the email, leaving *)
(* the other emails alone, whichever request was started first; every      *)
(* stored record is therefore the record of one write, the one that landed *)
(* last, and only its code passes the test of verifyCode                   *)
C28_WriteStep ==
    \A s \in Slots :
       (reqs[s].pc = "send_store" /\ reqs'[s].pc # "send_store") =>
           /\ RowsOf(codes', reqs[s].email) = reqs[s].row
           /\ \A e \in Emails \ {reqs[s].email} :
                 RowsOf(codes', e) = RowsOf(codes, e)

C28_WholeRecords ==
    /\ \A row \in codes :
          /\ row.expiresAt = ExpiresAt(row.issuedAt)
          /\ RowsOf(codes, row.email) = {row}
    /\ \A s \in Slots :
          reqs[s].pc = "verify_consume" =>
             /\ \A row \in reqs[s].stored : row.code = reqs[s].code
             /\ reqs[s].code \notin superseded[reqs[s].email]
                    \/ reqs[s].stored # CodeRows(reqs[s].email)

C28_LastWriterWins == []C28_WholeRecords /\ [][C28_WriteStep]_vars

(* two sends for one email overlap: the record prepared first is still on  *)
(* its way to the store when the record prepared after it has landed       *)
C28_Witness ==
    \E s \in Slots :
       /\ reqs[s].pc = "send_store"
       /\ \E row \in reqs[s].row, cur \in CodeRows(reqs[s].email) :
             /\ cur.code # row.code
             /\ cur.issuedAt > row.issuedAt

(* C29: an email has at most one challenge on file. Storing a challenge    *)
(* leaves exactly the new one, created at the instant of the write.        *)
(* getChallenge changes nothing in the table and returns the challenge on  *)
(* file, and only when less than ten minutes have passed since it was      *)
(* stored; in the whole seconds of the table's clock it returns it as long *)
(* as they have not                                                         *)
C29_OnePerEmail ==
    \A e \in Emails : Cardinality(RowsOf(challenges, e)) <= 1

C29_StoreStep ==
    (last'.op = "storeChallenge" /\ <<last, challenges>>' # <<last, challenges>>) =>
        /\ \E c \in Challenges :
              RowsOf(challenges', last'.email) =
                 {[email |-> last'.email, challenge |-> c,
                   createdAt |-> now \div 1000, storedAt |-> now]}
        /\ \A e \in Emails \ {last'.email} :
              RowsOf(challenges', e) = RowsOf(challenges, e)

C29_ReadStep ==
    (last'.op = "getChallenge" /\ last' # last) =>
        /\ challenges' = challenges
        /\ last'.found \subseteq RowsOf(challenges, last'.email)
        /\ \A row \in last'.found : now - row.storedAt < 10 * 60 * 1000
        /\ \A row \in RowsOf(challenges, last'.email) :
              (now \div 1000) - row.createdAt < 10 * 60 => row \in last'.found

C29_ChallengeLifetime ==
    []C29_OnePerEmail /\ [][C29_StoreStep /\ C29_ReadStep]_vars

(* a read finds nothing although a challenge is on file: ten minutes after *)
(* it was stored                                                           *)
C29_Witness ==
    /\ last.op = "getChallenge" /\ last.found = {}
    /\ \E row \in RowsOf(challenges, last.email) :
          now - row.storedAt = 10 * 60 * 1000

(* a challenge stored again after its ten minutes is returned *)
C29_WitnessRestart ==
    /\ last.op = "getChallenge"
    /\ \E row \in last.found : row.storedAt >= 10 * 60 * 1000

(* C30: a send-verification that is answered 400 or 404 has left the table *)
(* of codes as it was and sent no mail; only a request with an email that  *)
(* the member directory knows goes on to the store and to the mail         *)
C30_RejectedState ==
    /\ \A s \in Slots :
          reqs[s].pc = "send_store" =>
             (reqs[s].email # NoEmail /\ reqs[s].known)
    /\ (last.op = "send" /\ last.mailed) =>
          (last.email # NoEmail /\ last.known)
    /\ (last.op = "send" /\ last.status \in {400, 404}) => ~last.mailed

C30_RejectedStep ==
    (AnsweredAtOnce("send") /\ last'.status \in {400, 404}) =>
        (codes' = codes /\ ~last'.mailed)

C30_RejectIssuesNothing == []C30_RejectedState /\ [][C30_RejectedStep]_vars

(* an unknown email is answered 404 while a code is on file for it *)
C30_Witness ==
    /\ last.op = "send" /\ last.status = 404
    /\ CodeRows(last.email) # {}

(* a missing email is answered 400 while a code is on file *)
C30_WitnessMissing ==
    /\ last.op = "send" /\ last.status = 400
    /\ codes # {}

(* ======================================================================== *)
(* Properties of the session's lifetime                                     *)
(* ======================================================================== *)
(* C31: the expiry of a session is set when the session is created, to     *)
(* seven days after that moment, and no request moves it afterwards; from  *)
(* that moment on the status route answers unauthenticated and the gate    *)
(* forwards nothing.                                                        *)
C31_ExpiryStep ==
    \A k \in Clients :
       /\ expires'[k] # expires[k]
            => /\ now' = now
               /\ expires'[k] = now + 7 * 24 * 60 * 60 * 1000
               /\ sessions'[k].authenticated
               /\ last'.op \in {"callback", "verify", "login"}
               /\ last'.client = k
       /\ (AnsweredAtOnce("status") /\ last'.client = k /\ last'.authenticated)
            => now < expires[k]
       /\ (\E s \in Slots : /\ reqs[s].pc = "idle"
                             /\ reqs'[s].pc = "proxy_upstream"
                             /\ reqs'[s].client = k)
            => now < expires[k]

C31_FixedExpiry == [][C31_ExpiryStep]_vars

(* the status route answers unauthenticated at the very moment the seven   *)
(* days are over, the session still being in the store                     *)
C31_Witness ==
    /\ last.op = "status"
    /\ ~last.authenticated
    /\ sessions[last.client].authenticated
    /\ now = expires[last.client]
    /\ now = 7 * 24 * 60 * 60 * 1000

(* the gate sends a request to sign in at the moment the session expires *)
C31_WitnessGate ==
    /\ last.op = "proxy"
    /\ last.status = 302
    /\ sessions[last.client].authenticated
    /\ now = expires[last.client]

(* the two routes that complete a sign-in *)
SignInOps == {"verify", "login"}

C32_FailedStep ==
    /\ \A s \in Slots :
         (/\ reqs[s].op \in SignInOps
          /\ reqs[s].pc # "idle"
          /\ reqs'[s].pc = "idle"
          /\ last'.status # 200)
            => (sessions' = sessions /\ expires' = expires)
    /\ \A op \in SignInOps :
         (AnsweredAtOnce(op) /\ last'.status # 200)
            => (sessions' = sessions /\ expires' = expires)

(* C32: a verify-code or login-finish request that is answered with a      *)
(* status other than 200 leaves the session of its connection, and its     *)
(* expiry, as they were before the request.                                 *)
C32_FailedAttemptFrame == [][C32_FailedStep]_vars

(* a connection signed in for one email is refused a sign-in for another   *)
(* after the identity lookup, and still carries the first session          *)
C32_Witness ==
    /\ last.op \in SignInOps
    /\ last.status \in {403, 404, 500}
    /\ sessions[last.client].authenticated
    /\ sessions[last.client].userEmail # last.email

(* the same after a wrong code *)
C32_WitnessInvalid ==
    /\ last.op = "verify"
    /\ last.status = 400
    /\ sessions[last.client].authenticated

(* ======================================================================== *)
(* Properties of passkey registration                                       *)
(* ======================================================================== *)
(* C33: the email that register-start and register-finish hand to the      *)
(* passkey orchestrator is the email of the session of the request,        *)
(* whatever email the body carries.                                         *)
C33_RegistersSessionEmail ==
    \A s \in Slots :
       (reqs[s].pc \in {"register_options", "register_verify"} /\ reqs[s].invoked)
          => reqs[s].email = reqs[s].sess.userEmail

(* ======================================================================== *)
(* Properties of the verification code under overlapping requests           *)
(* ======================================================================== *)
(* the step by which a verify request makes its delete *)
Deletes(s) ==
    /\ reqs[s].pc \in {"verify_purge", "verify_consume"}
    /\ reqs'[s].pc # reqs[s].pc

(* C34: the delete of a verify request removes only the record the request *)
(* read: a code stored between its read and its delete is still in the     *)
(* table after the delete.                                                  *)
C34_DeletesWhatItRead ==
    [][\A s \in Slots : Deletes(s) => (codes \ codes') \subseteq reqs[s].stored]_vars

(* the step by which a verify request whose code matched is refused *)
RefusedAfterMatch(s) ==
    /\ reqs[s].pc = "verify_ghost"
    /\ reqs'[s].pc = "idle"
    /\ last'.status \in {403, 404, 500}

C35_ConsumeStep ==
    \A s \in Slots :
       /\ (reqs[s].pc = "verify_consume" /\ reqs'[s].pc = "verify_ghost")
            => /\ CodeRows(reqs[s].email) \cap codes' = {}
               /\ reqs[s].code \in consumed'[reqs[s].email]
       /\ RefusedAfterMatch(s) => codes' = codes /\ consumed' = consumed

C35_RetryState ==
    /\ \A s \in Slots :
          (reqs[s].pc = "verify_check" /\ reqs[s].code \in consumed[reqs[s].email]
             /\ reqs[s].stored = CodeRows(reqs[s].email))
            => Rejected(reqs[s].stored, reqs[s].code, now)
    /\ (last.op = "verify" /\ last.replay) => last.error = "Invalid or expired code"

C35_WitnessAnswered ==
    /\ last.op = "verify"
    /\ last.status = 400
    /\ last.replay
    /\ last.error = "Invalid or expired code"
    /\ CodeRows(last.email) = {}
    /\ started = 3

(* ======================================================================== *)
(* Properties of the session tests                                          *)
(* ======================================================================== *)
(* C36: every session that /signin and /api/auth/status take for            *)
(* authenticated is let through by requireAuth.                             *)
C36_ChecksAgree ==
    \A k \in Clients : isAuthenticated(Session(k)) => requireAuth(Session(k))

(* ======================================================================== *)
(* Properties of the periodic sweeps                                        *)
(* ======================================================================== *)
(* the step of cleanupExpiredCodes: rows go and no request moves *)
SweepsCodes == codes' # codes /\ reqs' = reqs /\ last' = last

(* the step of cleanupExpiredChallenges that removes rows *)
SweepsChallenges ==
    challenges' # challenges /\ last'.op = "cleanupExpiredChallenges"

C37_SweepStep ==
    /\ SweepsCodes =>
          /\ codes' \subseteq codes
          /\ \A r \in codes \ codes' : Rejected({r}, r.code, now)
    /\ SweepsChallenges =>
          /\ challenges' \subseteq challenges
          /\ \A r \in challenges \ challenges' :
                r \notin getChallenge(challenges, r.email, now)

(* C37: cleanupExpiredCodes removes no code that verifyCode would accept   *)
(* at that moment, and cleanupExpiredChallenges removes no challenge that  *)
(* getChallenge would return at that moment.                                *)
C37_SweepsOnlyDead == [][C37_SweepStep]_vars

(* a mailed code is gone from the table, which only the sweep can have     *)
(* done here, while a code at the instant of its expiry is kept            *)
C37_Witness ==
    /\ last.op = "send" /\ last.mailed
    /\ CodeRows(last.email) = {}
    /\ now > CODE_TTL_MS

(* a sweep ran at the instant a code expires and kept it *)
C37_WitnessKept ==
    /\ last.op = "cleanupExpiredChallenges"
    /\ \E r \in codes : r.expiresAt = now

(* the sweep of the challenges took the one stored before the clock moved  *)
(* and kept the one stored after                                           *)
C37_WitnessChallenge ==
    /\ last.op = "cleanupExpiredChallenges"
    /\ \E r \in challenges : r.storedAt = now /\ now > 0
    /\ \A r \in challenges : r.storedAt = now
    /\ Cardinality(challenges) = 1

(* ======================================================================== *)
(* Properties of the SSO client                                             *)
(* ======================================================================== *)
Settled == sso.check \in {"resolved", "rejected"}

(* C38: a checkAuthIframe call that is pending is eventually resolved or   *)
(* rejected, whatever the provider's origin sends, and a settled call has  *)
(* removed its listener and its iframe.                                     *)
C38_CheckSettles ==
    /\ [](Settled => (~sso.listener /\ ~sso.iframe))
    /\ (sso.check = "pending") ~> Settled

(* the update of authState made by a step, and the calls of onAuthChange   *)
(* the step made                                                           *)
AuthFlips == sso'.authenticated # sso.authenticated
AuthCalls == sso'.authChanges - sso.authChanges

C39_ChangeStep ==
    sso'.onAuthChange =>
       /\ AuthCalls = IF AuthFlips THEN 1 ELSE 0
       /\ AuthFlips => sso'.authArg = sso'.user

(* C39: onAuthChange is called once by every step that changes              *)
(* authState.authenticated and by no other step; authState starts          *)
(* unauthenticated, so a first check that finds no user calls nothing.      *)
C39_CalledOnChange ==
    /\ [](sso.phase = "unloaded" => (~sso.authenticated /\ sso.authChanges = 0))
    /\ [][C39_ChangeStep]_vars

(* signed in by a check and signed out by a later one: two calls *)
C39_Witness ==
    /\ sso.onAuthChange
    /\ ~sso.authenticated
    /\ sso.authChanges = 2
    /\ sso.authArg = NoUser
    /\ sso.logouts = 0

(* the first check has answered that nobody is signed in: no call *)
C39_WitnessFirst ==
    /\ sso.onAuthChange
    /\ sso.n = 1 /\ sso.check = "resolved"
    /\ ~sso.authenticated
    /\ sso.authChanges = 0

(* a check found the same user signed in again: one call in all *)
C39_WitnessSame ==
    /\ sso.onAuthChange
    /\ sso.n = 2 /\ sso.check = "resolved"
    /\ sso.authenticated
    /\ sso.authChanges = 1

C40_LogoutStep ==
    (sso.logout = "fetching" /\ sso'.logout = "idle") =>
       /\ ~sso'.authenticated
       /\ sso'.user = NoUser
       /\ sso'.token = NoJwt
       /\ sso'.onLogout =>
             (sso'.logouts = sso.logouts + 1 /\ ~sso'.fromBroadcast)

C40_WitnessNotOk ==
    /\ sso.outcome = "not-ok"
    /\ sso.onLogout /\ sso.logouts = 1
    /\ sso.onAuthChange /\ sso.authChanges = 2
    /\ ~sso.authenticated

(* and with an OK answer *)
C40_WitnessOk ==
    /\ sso.outcome = "ok"
    /\ sso.onLogout /\ sso.logouts = 1
    /\ sso.onAuthChange /\ sso.authChanges = 2
    /\ ~sso.authenticated

====
